---- MODULE Spec2Model ----
(***************************************************************************)
(* Model of postgresql_embedded/src/command: the command builders           *)
(* (pg_controldata, pg_isready, psql), the CommandBuilder trait and the two *)
(* CommandExecutor implementations (std::process and tokio::process).       *)
(*                                                                          *)
(* Text (OsString, PathBuf, String) is a sequence of chunks; a chunk is a   *)
(* run of characters that the model never looks inside.  Option<T> is a     *)
(* sequence of length 0 (None) or 1 (Some).                                 *)
(***************************************************************************)
EXTENDS Integers, Sequences, FiniteSets, TLC

VARIABLES
    tool,       \* which builder struct is being configured
    builder,    \* the builder value (the struct's fields)
    stdCmd,     \* Option<std::process::Command> produced by build()
    tokioCmd,   \* Option<tokio::process::Command> produced by build_tokio()
    exec,       \* which CommandExecutor impl runs: "std" or "tokio"
    spawnable,  \* whether the OS can start the program
    timeout,    \* the Option<Duration> argument of execute
    clock,      \* the time, in ticks
    deadline,   \* Option<instant> at which the tokio Timeout's delay is ready
    pc,         \* position of the execute call
    proc,       \* the child process
    result      \* Option<Result<(String, String)>> returned by execute

vars == <<tool, builder, stdCmd, tokioCmd,
          exec, spawnable, timeout, clock, deadline, pc, proc, result>>

builderVars == <<tool, builder, stdCmd, tokioCmd>>
execVars == <<exec, spawnable, timeout, clock, deadline, pc, proc, result>>

----------------------------------------------------------------------------
(* Bounds *)
MaxClock == 3
MaxTimeout == 2
MaxOut == 1
MaxSet == 2
MaxLen == 2

None == <<>>
Some(v) == <<v>>
IsSome(o) == Len(o) = 1
Unwrap(o) == o[1]

----------------------------------------------------------------------------
(* Builders: PgControlDataBuilder, PgIsReadyBuilder, PsqlBuilder              *)

\* The builder structs.
Tools == {"pg_controldata", "pg_isready", "psql"}

\* Values given to the setters that take a string.
OsStrings == {<<"postgres">>, <<"a", "=", "b">>}

\* Values given to the setters that take a path.
PathBufs == {<<"test", ".", "sql">>, <<"/", "var", "/", "data">>}

\* Values given to program_dir: absolute, relative, with a trailing
\* separator, and the empty path.
ProgramDirs == {<<"/", "usr", "/", "bin">>, <<".">>, <<"/", "tmp", "/">>, <<>>}

\* Values given to the setters that take a u16.
U16s == {0, 5432, 65535}

\* The decimal digits, as text.
Digit(d) ==
    CASE d = 0 -> "0" [] d = 1 -> "1" [] d = 2 -> "2" [] d = 3 -> "3"
      [] d = 4 -> "4" [] d = 5 -> "5" [] d = 6 -> "6" [] d = 7 -> "7"
      [] d = 8 -> "8" [] d = 9 -> "9"

\* u16::to_string: the decimal form, most significant digit first, no
\* leading zero.
RECURSIVE to_string(_)
to_string(n) ==
    IF n < 10 THEN <<Digit(n)>>
    ELSE to_string(n \div 10) \o <<Digit(n % 10)>>

\* OsStr::to_string_lossy: valid Unicode is kept, a byte that is not valid
\* Unicode ("0xFF") becomes U+FFFD.
RECURSIVE to_string_lossy(_)
to_string_lossy(os) ==
    IF os = <<>> THEN <<>>
    ELSE <<IF Head(os) = "0xFF" THEN "U+FFFD" ELSE Head(os)>>
         \o to_string_lossy(Tail(os))

\* A pair formatted with the two halves in the wrong order.
format_pair_Swapped(pair) ==
    to_string_lossy(pair[2]) \o <<"=">> \o to_string_lossy(pair[1])

\* format!("{}={}", name.to_string_lossy(), value.to_string_lossy())
format_pair(pair) ==
    to_string_lossy(pair[1]) \o <<"=">> \o to_string_lossy(pair[2])

\* A join that puts no separator between the two paths.
joinNoSeparator(dir, name) == dir \o name

\* PathBuf::join with a relative path: a separator is put between the two
\* unless the left path is empty or already ends with one.
join(dir, name) ==
    IF dir = <<>> THEN name
    ELSE IF dir[Len(dir)] = "/" THEN dir \o name
    ELSE dir \o <<"/">> \o name

\* PgControlDataBuilder::new(): Default, every field unset.
PgControlDataBuilder_new ==
    [program_dir |-> None,
     pgdata |-> None,
     version |-> FALSE,
     help |-> FALSE]

PgControlDataBuilder_program_dir(b, v) == [b EXCEPT !.program_dir = Some(v)]
PgControlDataBuilder_pgdata(b, v) == [b EXCEPT !.pgdata = Some(v)]
PgControlDataBuilder_version(b) == [b EXCEPT !.version = TRUE]
PgControlDataBuilder_help(b) == [b EXCEPT !.help = TRUE]

\* PgControlDataBuilder::get_program
PgControlDataBuilder_get_program == <<"pg_controldata">>

\* PgControlDataBuilder::get_program_dir
PgControlDataBuilder_get_program_dir(b) == b.program_dir

\* get_args that pushes the value of pgdata without its flag name.
PgControlDataBuilder_get_args_ValueOnly(b) ==
    (IF IsSome(b.pgdata) THEN <<Unwrap(b.pgdata)>> ELSE <<>>)
    \o (IF b.version THEN <<<<"--version">>>> ELSE <<>>)
    \o (IF b.help THEN <<<<"--help">>>> ELSE <<>>)

\* PgControlDataBuilder::get_args
PgControlDataBuilder_get_args(b) ==
    (IF IsSome(b.pgdata) THEN <<<<"--pgdata">>, Unwrap(b.pgdata)>> ELSE <<>>)
    \o (IF b.version THEN <<<<"--version">>>> ELSE <<>>)
    \o (IF b.help THEN <<<<"--help">>>> ELSE <<>>)

\* PgIsReadyBuilder::new(): Default, every field unset.
PgIsReadyBuilder_new ==
    [program_dir |-> None,
     dbname |-> None,
     quiet |-> FALSE,
     version |-> FALSE,
     help |-> FALSE,
     host |-> None,
     port |-> None,
     timeout |-> None,
     username |-> None]

PgIsReadyBuilder_program_dir(b, v) == [b EXCEPT !.program_dir = Some(v)]
PgIsReadyBuilder_dbname(b, v) == [b EXCEPT !.dbname = Some(v)]
PgIsReadyBuilder_quiet(b) == [b EXCEPT !.quiet = TRUE]
PgIsReadyBuilder_version(b) == [b EXCEPT !.version = TRUE]
PgIsReadyBuilder_help(b) == [b EXCEPT !.help = TRUE]
PgIsReadyBuilder_host(b, v) == [b EXCEPT !.host = Some(v)]
PgIsReadyBuilder_port(b, v) == [b EXCEPT !.port = Some(v)]
PgIsReadyBuilder_timeout(b, v) == [b EXCEPT !.timeout = Some(v)]
PgIsReadyBuilder_username(b, v) == [b EXCEPT !.username = Some(v)]

\* PgIsReadyBuilder::get_program
PgIsReadyBuilder_get_program == <<"pg_isready">>

\* PgIsReadyBuilder::get_program_dir
PgIsReadyBuilder_get_program_dir(b) == b.program_dir

\* A get_args of pg_isready that emits the port before the host.
PgIsReadyBuilder_get_args_PortBeforeHost(b) ==
    (IF IsSome(b.dbname) THEN <<<<"--dbname">>, Unwrap(b.dbname)>> ELSE <<>>)
    \o (IF b.quiet THEN <<<<"--quiet">>>> ELSE <<>>)
    \o (IF b.version THEN <<<<"--version">>>> ELSE <<>>)
    \o (IF b.help THEN <<<<"--help">>>> ELSE <<>>)
    \o (IF IsSome(b.port) THEN <<<<"--port">>, to_string(Unwrap(b.port))>> ELSE <<>>)
    \o (IF IsSome(b.host) THEN <<<<"--host">>, Unwrap(b.host)>> ELSE <<>>)
    \o (IF IsSome(b.timeout) THEN <<<<"--timeout">>, to_string(Unwrap(b.timeout))>> ELSE <<>>)
    \o (IF IsSome(b.username) THEN <<<<"--username">>, Unwrap(b.username)>> ELSE <<>>)

\* PgIsReadyBuilder::get_args
PgIsReadyBuilder_get_args(b) ==
    (IF IsSome(b.dbname) THEN <<<<"--dbname">>, Unwrap(b.dbname)>> ELSE <<>>)
    \o (IF b.quiet THEN <<<<"--quiet">>>> ELSE <<>>)
    \o (IF b.version THEN <<<<"--version">>>> ELSE <<>>)
    \o (IF b.help THEN <<<<"--help">>>> ELSE <<>>)
    \o (IF IsSome(b.host) THEN <<<<"--host">>, Unwrap(b.host)>> ELSE <<>>)
    \o (IF IsSome(b.port) THEN <<<<"--port">>, to_string(Unwrap(b.port))>> ELSE <<>>)
    \o (IF IsSome(b.timeout) THEN <<<<"--timeout">>, to_string(Unwrap(b.timeout))>> ELSE <<>>)
    \o (IF IsSome(b.username) THEN <<<<"--username">>, Unwrap(b.username)>> ELSE <<>>)

\* PsqlBuilder::new(): Default, every field unset.
PsqlBuilder_new ==
    [program_dir |-> None,
     command |-> None,
     dbname |-> None,
     file |-> None,
     list |-> FALSE,
     variable |-> None,
     version |-> FALSE,
     no_psqlrc |-> FALSE,
     single_transaction |-> FALSE,
     help |-> None,
     echo_all |-> FALSE,
     echo_errors |-> FALSE,
     echo_queries |-> FALSE,
     echo_hidden |-> FALSE,
     log_file |-> None,
     no_readline |-> FALSE,
     output |-> None,
     quiet |-> FALSE,
     single_step |-> FALSE,
     single_line |-> FALSE,
     no_align |-> FALSE,
     csv |-> FALSE,
     field_separator |-> None,
     html |-> FALSE,
     pset |-> None,
     record_separator |-> None,
     tuples_only |-> FALSE,
     table_attr |-> None,
     expanded |-> FALSE,
     field_separator_zero |-> FALSE,
     record_separator_zero |-> FALSE,
     host |-> None,
     port |-> None,
     username |-> None,
     no_password |-> FALSE,
     password |-> FALSE]

\* A variable setter that keeps the pair it already holds.
PsqlBuilder_variable_KeepsFirst(b, v) ==
    IF IsSome(b.variable) THEN b ELSE [b EXCEPT !.variable = Some(v)]

PsqlBuilder_program_dir(b, v) == [b EXCEPT !.program_dir = Some(v)]
PsqlBuilder_command(b, v) == [b EXCEPT !.command = Some(v)]
PsqlBuilder_dbname(b, v) == [b EXCEPT !.dbname = Some(v)]
PsqlBuilder_file(b, v) == [b EXCEPT !.file = Some(v)]
PsqlBuilder_list(b) == [b EXCEPT !.list = TRUE]
PsqlBuilder_variable(b, v) == [b EXCEPT !.variable = Some(<<v[1], v[2]>>)]
PsqlBuilder_version(b) == [b EXCEPT !.version = TRUE]
PsqlBuilder_no_psqlrc(b) == [b EXCEPT !.no_psqlrc = TRUE]
PsqlBuilder_single_transaction(b) == [b EXCEPT !.single_transaction = TRUE]
PsqlBuilder_help(b, v) == [b EXCEPT !.help = Some(v)]
PsqlBuilder_echo_all(b) == [b EXCEPT !.echo_all = TRUE]
PsqlBuilder_echo_errors(b) == [b EXCEPT !.echo_errors = TRUE]
PsqlBuilder_echo_queries(b) == [b EXCEPT !.echo_queries = TRUE]
PsqlBuilder_echo_hidden(b) == [b EXCEPT !.echo_hidden = TRUE]
PsqlBuilder_log_file(b, v) == [b EXCEPT !.log_file = Some(v)]
PsqlBuilder_no_readline(b) == [b EXCEPT !.no_readline = TRUE]
PsqlBuilder_output(b, v) == [b EXCEPT !.output = Some(v)]
PsqlBuilder_quiet(b) == [b EXCEPT !.quiet = TRUE]
PsqlBuilder_single_step(b) == [b EXCEPT !.single_step = TRUE]
PsqlBuilder_single_line(b) == [b EXCEPT !.single_line = TRUE]
PsqlBuilder_no_align(b) == [b EXCEPT !.no_align = TRUE]
PsqlBuilder_csv(b) == [b EXCEPT !.csv = TRUE]
PsqlBuilder_field_separator(b, v) == [b EXCEPT !.field_separator = Some(v)]
PsqlBuilder_html(b) == [b EXCEPT !.html = TRUE]
PsqlBuilder_pset(b, v) == [b EXCEPT !.pset = Some(<<v[1], v[2]>>)]
PsqlBuilder_record_separator(b, v) == [b EXCEPT !.record_separator = Some(v)]
PsqlBuilder_tuples_only(b) == [b EXCEPT !.tuples_only = TRUE]
PsqlBuilder_table_attr(b, v) == [b EXCEPT !.table_attr = Some(v)]
PsqlBuilder_expanded(b) == [b EXCEPT !.expanded = TRUE]
PsqlBuilder_field_separator_zero(b) == [b EXCEPT !.field_separator_zero = TRUE]
PsqlBuilder_record_separator_zero(b) == [b EXCEPT !.record_separator_zero = TRUE]
PsqlBuilder_host(b, v) == [b EXCEPT !.host = Some(v)]
PsqlBuilder_port(b, v) == [b EXCEPT !.port = Some(v)]
PsqlBuilder_username(b, v) == [b EXCEPT !.username = Some(v)]
PsqlBuilder_no_password(b) == [b EXCEPT !.no_password = TRUE]
PsqlBuilder_password(b) == [b EXCEPT !.password = TRUE]

\* PsqlBuilder::get_program
PsqlBuilder_get_program == <<"psql">>

\* PsqlBuilder::get_program_dir
PsqlBuilder_get_program_dir(b) == b.program_dir

\* PsqlBuilder::get_args
PsqlBuilder_get_args(b) ==
    (IF IsSome(b.command) THEN <<<<"--command">>, Unwrap(b.command)>> ELSE <<>>)
    \o (IF IsSome(b.dbname) THEN <<<<"--dbname">>, Unwrap(b.dbname)>> ELSE <<>>)
    \o (IF IsSome(b.file) THEN <<<<"--file">>, Unwrap(b.file)>> ELSE <<>>)
    \o (IF b.list THEN <<<<"--list">>>> ELSE <<>>)
    \o (IF IsSome(b.variable) THEN <<<<"--variable">>, format_pair(Unwrap(b.variable))>> ELSE <<>>)
    \o (IF b.version THEN <<<<"--version">>>> ELSE <<>>)
    \o (IF b.no_psqlrc THEN <<<<"--no-psqlrc">>>> ELSE <<>>)
    \o (IF b.single_transaction THEN <<<<"--single-transaction">>>> ELSE <<>>)
    \o (IF IsSome(b.help) THEN <<<<"--help">>, Unwrap(b.help)>> ELSE <<>>)
    \o (IF b.echo_all THEN <<<<"--echo-all">>>> ELSE <<>>)
    \o (IF b.echo_errors THEN <<<<"--echo-errors">>>> ELSE <<>>)
    \o (IF b.echo_queries THEN <<<<"--echo-queries">>>> ELSE <<>>)
    \o (IF b.echo_hidden THEN <<<<"--echo-hidden">>>> ELSE <<>>)
    \o (IF IsSome(b.log_file) THEN <<<<"--log-file">>, Unwrap(b.log_file)>> ELSE <<>>)
    \o (IF b.no_readline THEN <<<<"--no-readline">>>> ELSE <<>>)
    \o (IF IsSome(b.output) THEN <<<<"--output">>, Unwrap(b.output)>> ELSE <<>>)
    \o (IF b.quiet THEN <<<<"--quiet">>>> ELSE <<>>)
    \o (IF b.single_step THEN <<<<"--single-step">>>> ELSE <<>>)
    \o (IF b.single_line THEN <<<<"--single-line">>>> ELSE <<>>)
    \o (IF b.no_align THEN <<<<"--no-align">>>> ELSE <<>>)
    \o (IF b.csv THEN <<<<"--csv">>>> ELSE <<>>)
    \o (IF IsSome(b.field_separator) THEN <<<<"--field-separator">>, Unwrap(b.field_separator)>> ELSE <<>>)
    \o (IF b.html THEN <<<<"--html">>>> ELSE <<>>)
    \o (IF IsSome(b.pset) THEN <<<<"--pset">>, format_pair(Unwrap(b.pset))>> ELSE <<>>)
    \o (IF IsSome(b.record_separator) THEN <<<<"--record-separator">>, Unwrap(b.record_separator)>> ELSE <<>>)
    \o (IF b.tuples_only THEN <<<<"--tuples-only">>>> ELSE <<>>)
    \o (IF IsSome(b.table_attr) THEN <<<<"--table-attr">>, Unwrap(b.table_attr)>> ELSE <<>>)
    \o (IF b.expanded THEN <<<<"--expanded">>>> ELSE <<>>)
    \o (IF b.field_separator_zero THEN <<<<"--field-separator-zero">>>> ELSE <<>>)
    \o (IF b.record_separator_zero THEN <<<<"--record-separator-zero">>>> ELSE <<>>)
    \o (IF IsSome(b.host) THEN <<<<"--host">>, Unwrap(b.host)>> ELSE <<>>)
    \o (IF IsSome(b.port) THEN <<<<"--port">>, to_string(Unwrap(b.port))>> ELSE <<>>)
    \o (IF IsSome(b.username) THEN <<<<"--username">>, Unwrap(b.username)>> ELSE <<>>)
    \o (IF b.no_password THEN <<<<"--no-password">>>> ELSE <<>>)
    \o (IF b.password THEN <<<<"--password">>>> ELSE <<>>)


\* The flag fields of each struct, in declaration order.
FlagFields(t) ==
    CASE t = "pg_controldata" ->
          <<"pgdata", "version", "help">>
      [] t = "pg_isready" ->
          <<"dbname", "quiet", "version", "help", "host", "port",
            "timeout", "username">>
      [] t = "psql" ->
          <<"command", "dbname", "file", "list", "variable", "version",
            "no_psqlrc", "single_transaction", "help", "echo_all",
            "echo_errors", "echo_queries", "echo_hidden", "log_file",
            "no_readline", "output", "quiet", "single_step",
            "single_line", "no_align", "csv", "field_separator", "html",
            "pset", "record_separator", "tuples_only", "table_attr",
            "expanded", "field_separator_zero", "record_separator_zero",
            "host", "port", "username", "no_password", "password">>

\* The bool fields of each struct.
PresenceFlags(t) ==
    CASE t = "pg_controldata" ->
          {"version", "help"}
      [] t = "pg_isready" ->
          {"quiet", "version", "help"}
      [] t = "psql" ->
          {"list", "version", "no_psqlrc", "single_transaction",
           "echo_all", "echo_errors", "echo_queries", "echo_hidden",
           "no_readline", "quiet", "single_step", "single_line",
           "no_align", "csv", "html", "tuples_only", "expanded",
           "field_separator_zero", "record_separator_zero",
           "no_password", "password"}

\* Whether field f of builder b holds a value.
IsSet(t, b, f) == IF f \in PresenceFlags(t) THEN b[f] ELSE IsSome(b[f])

\* All fields of a struct, program_dir first.
Fields(t) == <<"program_dir">> \o FlagFields(t)

\* The fields of b that hold a value.
SetFields(t, b) ==
    LET fs == Fields(t)
        presence == PresenceFlags(t)
    IN  {f \in {fs[i] : i \in 1..Len(fs)} :
            IF f \in presence THEN b[f] ELSE IsSome(b[f])}

\* <Builder>::new()
New(t) ==
    CASE t = "pg_controldata" -> PgControlDataBuilder_new
      [] t = "pg_isready" -> PgIsReadyBuilder_new
      [] t = "psql" -> PsqlBuilder_new

\* CommandBuilder::get_program
get_program(t) ==
    CASE t = "pg_controldata" -> PgControlDataBuilder_get_program
      [] t = "pg_isready" -> PgIsReadyBuilder_get_program
      [] t = "psql" -> PsqlBuilder_get_program

\* CommandBuilder::get_program_dir
get_program_dir(t, b) ==
    CASE t = "pg_controldata" -> PgControlDataBuilder_get_program_dir(b)
      [] t = "pg_isready" -> PgIsReadyBuilder_get_program_dir(b)
      [] t = "psql" -> PsqlBuilder_get_program_dir(b)

\* CommandBuilder::get_args
get_args(t, b) ==
    CASE t = "pg_controldata" -> PgControlDataBuilder_get_args(b)
      [] t = "pg_isready" -> PgIsReadyBuilder_get_args(b)
      [] t = "psql" -> PsqlBuilder_get_args(b)

\* CommandBuilder::get_program_file
get_program_file(t, b) ==
    LET program_name == get_program(t)
    IN  IF IsSome(get_program_dir(t, b))
        THEN join(Unwrap(get_program_dir(t, b)), program_name)
        ELSE program_name

\* std::process::Command::new(program) followed by args(..)
StdCommand(program, args) == [program |-> program, args |-> args]

\* tokio::process::Command::new(program) followed by args(..): a std command
\* and kill_on_drop, which new() leaves false.
TokioCommand(program, args) ==
    [std |-> StdCommand(program, args), kill_on_drop |-> FALSE]

\* CommandBuilder::build
build(t, b) ==
    LET program_file == get_program_file(t, b)
    IN  StdCommand(program_file, get_args(t, b))

\* A build_tokio that resolves the program by its bare name.
build_tokio_BareProgram(t, b) ==
    [std |-> [program |-> get_program(t), args |-> get_args(t, b)],
     kill_on_drop |-> FALSE]

\* CommandBuilder::build_tokio
build_tokio(t, b) ==
    LET program_file == get_program_file(t, b)
    IN  TokioCommand(program_file, get_args(t, b))

\* A setter call: self is consumed and the changed builder returned.  A
\* builder is configured before it is built, and at most MaxSet of its fields
\* are given a value.
Setter(t, f, b2) ==
    /\ tool = t
    /\ stdCmd = None
    /\ tokioCmd = None
    /\ IsSet(t, builder, f) \/ Cardinality(SetFields(t, builder)) < MaxSet
    /\ builder' = b2
    /\ UNCHANGED <<tool, stdCmd, tokioCmd>>
    /\ UNCHANGED execVars

Call_PgControlDataBuilder_program_dir ==
    \E v \in ProgramDirs : Setter("pg_controldata", "program_dir", PgControlDataBuilder_program_dir(builder, v))
Call_PgControlDataBuilder_pgdata ==
    \E v \in PathBufs : Setter("pg_controldata", "pgdata", PgControlDataBuilder_pgdata(builder, v))
Call_PgControlDataBuilder_version == Setter("pg_controldata", "version", PgControlDataBuilder_version(builder))
Call_PgControlDataBuilder_help == Setter("pg_controldata", "help", PgControlDataBuilder_help(builder))

Call_PgIsReadyBuilder_program_dir ==
    \E v \in ProgramDirs : Setter("pg_isready", "program_dir", PgIsReadyBuilder_program_dir(builder, v))
Call_PgIsReadyBuilder_dbname ==
    \E v \in OsStrings : Setter("pg_isready", "dbname", PgIsReadyBuilder_dbname(builder, v))
Call_PgIsReadyBuilder_quiet == Setter("pg_isready", "quiet", PgIsReadyBuilder_quiet(builder))
Call_PgIsReadyBuilder_version == Setter("pg_isready", "version", PgIsReadyBuilder_version(builder))
Call_PgIsReadyBuilder_help == Setter("pg_isready", "help", PgIsReadyBuilder_help(builder))
Call_PgIsReadyBuilder_host ==
    \E v \in OsStrings : Setter("pg_isready", "host", PgIsReadyBuilder_host(builder, v))
Call_PgIsReadyBuilder_port ==
    \E v \in U16s : Setter("pg_isready", "port", PgIsReadyBuilder_port(builder, v))
Call_PgIsReadyBuilder_timeout ==
    \E v \in U16s : Setter("pg_isready", "timeout", PgIsReadyBuilder_timeout(builder, v))
Call_PgIsReadyBuilder_username ==
    \E v \in OsStrings : Setter("pg_isready", "username", PgIsReadyBuilder_username(builder, v))

Call_PsqlBuilder_program_dir ==
    \E v \in ProgramDirs : Setter("psql", "program_dir", PsqlBuilder_program_dir(builder, v))
Call_PsqlBuilder_command ==
    \E v \in OsStrings : Setter("psql", "command", PsqlBuilder_command(builder, v))
Call_PsqlBuilder_dbname ==
    \E v \in OsStrings : Setter("psql", "dbname", PsqlBuilder_dbname(builder, v))
Call_PsqlBuilder_file ==
    \E v \in PathBufs : Setter("psql", "file", PsqlBuilder_file(builder, v))
Call_PsqlBuilder_list == Setter("psql", "list", PsqlBuilder_list(builder))
Call_PsqlBuilder_variable ==
    \E v \in OsStrings \X OsStrings : Setter("psql", "variable", PsqlBuilder_variable(builder, v))
Call_PsqlBuilder_version == Setter("psql", "version", PsqlBuilder_version(builder))
Call_PsqlBuilder_no_psqlrc == Setter("psql", "no_psqlrc", PsqlBuilder_no_psqlrc(builder))
Call_PsqlBuilder_single_transaction == Setter("psql", "single_transaction", PsqlBuilder_single_transaction(builder))
Call_PsqlBuilder_help ==
    \E v \in OsStrings : Setter("psql", "help", PsqlBuilder_help(builder, v))
Call_PsqlBuilder_echo_all == Setter("psql", "echo_all", PsqlBuilder_echo_all(builder))
Call_PsqlBuilder_echo_errors == Setter("psql", "echo_errors", PsqlBuilder_echo_errors(builder))
Call_PsqlBuilder_echo_queries == Setter("psql", "echo_queries", PsqlBuilder_echo_queries(builder))
Call_PsqlBuilder_echo_hidden == Setter("psql", "echo_hidden", PsqlBuilder_echo_hidden(builder))
Call_PsqlBuilder_log_file ==
    \E v \in PathBufs : Setter("psql", "log_file", PsqlBuilder_log_file(builder, v))
Call_PsqlBuilder_no_readline == Setter("psql", "no_readline", PsqlBuilder_no_readline(builder))
Call_PsqlBuilder_output ==
    \E v \in PathBufs : Setter("psql", "output", PsqlBuilder_output(builder, v))
Call_PsqlBuilder_quiet == Setter("psql", "quiet", PsqlBuilder_quiet(builder))
Call_PsqlBuilder_single_step == Setter("psql", "single_step", PsqlBuilder_single_step(builder))
Call_PsqlBuilder_single_line == Setter("psql", "single_line", PsqlBuilder_single_line(builder))
Call_PsqlBuilder_no_align == Setter("psql", "no_align", PsqlBuilder_no_align(builder))
Call_PsqlBuilder_csv == Setter("psql", "csv", PsqlBuilder_csv(builder))
Call_PsqlBuilder_field_separator ==
    \E v \in OsStrings : Setter("psql", "field_separator", PsqlBuilder_field_separator(builder, v))
Call_PsqlBuilder_html == Setter("psql", "html", PsqlBuilder_html(builder))
Call_PsqlBuilder_pset ==
    \E v \in OsStrings \X OsStrings : Setter("psql", "pset", PsqlBuilder_pset(builder, v))
Call_PsqlBuilder_record_separator ==
    \E v \in OsStrings : Setter("psql", "record_separator", PsqlBuilder_record_separator(builder, v))
Call_PsqlBuilder_tuples_only == Setter("psql", "tuples_only", PsqlBuilder_tuples_only(builder))
Call_PsqlBuilder_table_attr ==
    \E v \in OsStrings : Setter("psql", "table_attr", PsqlBuilder_table_attr(builder, v))
Call_PsqlBuilder_expanded == Setter("psql", "expanded", PsqlBuilder_expanded(builder))
Call_PsqlBuilder_field_separator_zero == Setter("psql", "field_separator_zero", PsqlBuilder_field_separator_zero(builder))
Call_PsqlBuilder_record_separator_zero == Setter("psql", "record_separator_zero", PsqlBuilder_record_separator_zero(builder))
Call_PsqlBuilder_host ==
    \E v \in OsStrings : Setter("psql", "host", PsqlBuilder_host(builder, v))
Call_PsqlBuilder_port ==
    \E v \in U16s : Setter("psql", "port", PsqlBuilder_port(builder, v))
Call_PsqlBuilder_username ==
    \E v \in OsStrings : Setter("psql", "username", PsqlBuilder_username(builder, v))
Call_PsqlBuilder_no_password == Setter("psql", "no_password", PsqlBuilder_no_password(builder))
Call_PsqlBuilder_password == Setter("psql", "password", PsqlBuilder_password(builder))

\* build() on the builder (or a clone of it).
Build ==
    /\ stdCmd' = Some(build(tool, builder))
    /\ UNCHANGED <<tool, builder, tokioCmd>>
    /\ UNCHANGED execVars

\* build_tokio() on the builder (or a clone of it).
BuildTokio ==
    /\ tokioCmd' = Some(build_tokio(tool, builder))
    /\ UNCHANGED <<tool, builder, stdCmd>>
    /\ UNCHANGED execVars

BuilderNext ==
    \/ Call_PgControlDataBuilder_program_dir
    \/ Call_PgControlDataBuilder_pgdata
    \/ Call_PgControlDataBuilder_version
    \/ Call_PgControlDataBuilder_help
    \/ Call_PgIsReadyBuilder_program_dir
    \/ Call_PgIsReadyBuilder_dbname
    \/ Call_PgIsReadyBuilder_quiet
    \/ Call_PgIsReadyBuilder_version
    \/ Call_PgIsReadyBuilder_help
    \/ Call_PgIsReadyBuilder_host
    \/ Call_PgIsReadyBuilder_port
    \/ Call_PgIsReadyBuilder_timeout
    \/ Call_PgIsReadyBuilder_username
    \/ Call_PsqlBuilder_program_dir
    \/ Call_PsqlBuilder_command
    \/ Call_PsqlBuilder_dbname
    \/ Call_PsqlBuilder_file
    \/ Call_PsqlBuilder_list
    \/ Call_PsqlBuilder_variable
    \/ Call_PsqlBuilder_version
    \/ Call_PsqlBuilder_no_psqlrc
    \/ Call_PsqlBuilder_single_transaction
    \/ Call_PsqlBuilder_help
    \/ Call_PsqlBuilder_echo_all
    \/ Call_PsqlBuilder_echo_errors
    \/ Call_PsqlBuilder_echo_queries
    \/ Call_PsqlBuilder_echo_hidden
    \/ Call_PsqlBuilder_log_file
    \/ Call_PsqlBuilder_no_readline
    \/ Call_PsqlBuilder_output
    \/ Call_PsqlBuilder_quiet
    \/ Call_PsqlBuilder_single_step
    \/ Call_PsqlBuilder_single_line
    \/ Call_PsqlBuilder_no_align
    \/ Call_PsqlBuilder_csv
    \/ Call_PsqlBuilder_field_separator
    \/ Call_PsqlBuilder_html
    \/ Call_PsqlBuilder_pset
    \/ Call_PsqlBuilder_record_separator
    \/ Call_PsqlBuilder_tuples_only
    \/ Call_PsqlBuilder_table_attr
    \/ Call_PsqlBuilder_expanded
    \/ Call_PsqlBuilder_field_separator_zero
    \/ Call_PsqlBuilder_record_separator_zero
    \/ Call_PsqlBuilder_host
    \/ Call_PsqlBuilder_port
    \/ Call_PsqlBuilder_username
    \/ Call_PsqlBuilder_no_password
    \/ Call_PsqlBuilder_password
    \/ Build
    \/ BuildTokio

\* The setter of field f called on b with value v (v is not read by the
\* setter of a bool field).
CallSetter(t, f, v, b) ==
    CASE t = "pg_controldata" /\ f = "program_dir" -> PgControlDataBuilder_program_dir(b, v)
      [] t = "pg_controldata" /\ f = "pgdata" -> PgControlDataBuilder_pgdata(b, v)
      [] t = "pg_controldata" /\ f = "version" -> PgControlDataBuilder_version(b)
      [] t = "pg_controldata" /\ f = "help" -> PgControlDataBuilder_help(b)
      [] t = "pg_isready" /\ f = "program_dir" -> PgIsReadyBuilder_program_dir(b, v)
      [] t = "pg_isready" /\ f = "dbname" -> PgIsReadyBuilder_dbname(b, v)
      [] t = "pg_isready" /\ f = "quiet" -> PgIsReadyBuilder_quiet(b)
      [] t = "pg_isready" /\ f = "version" -> PgIsReadyBuilder_version(b)
      [] t = "pg_isready" /\ f = "help" -> PgIsReadyBuilder_help(b)
      [] t = "pg_isready" /\ f = "host" -> PgIsReadyBuilder_host(b, v)
      [] t = "pg_isready" /\ f = "port" -> PgIsReadyBuilder_port(b, v)
      [] t = "pg_isready" /\ f = "timeout" -> PgIsReadyBuilder_timeout(b, v)
      [] t = "pg_isready" /\ f = "username" -> PgIsReadyBuilder_username(b, v)
      [] t = "psql" /\ f = "program_dir" -> PsqlBuilder_program_dir(b, v)
      [] t = "psql" /\ f = "command" -> PsqlBuilder_command(b, v)
      [] t = "psql" /\ f = "dbname" -> PsqlBuilder_dbname(b, v)
      [] t = "psql" /\ f = "file" -> PsqlBuilder_file(b, v)
      [] t = "psql" /\ f = "list" -> PsqlBuilder_list(b)
      [] t = "psql" /\ f = "variable" -> PsqlBuilder_variable(b, v)
      [] t = "psql" /\ f = "version" -> PsqlBuilder_version(b)
      [] t = "psql" /\ f = "no_psqlrc" -> PsqlBuilder_no_psqlrc(b)
      [] t = "psql" /\ f = "single_transaction" -> PsqlBuilder_single_transaction(b)
      [] t = "psql" /\ f = "help" -> PsqlBuilder_help(b, v)
      [] t = "psql" /\ f = "echo_all" -> PsqlBuilder_echo_all(b)
      [] t = "psql" /\ f = "echo_errors" -> PsqlBuilder_echo_errors(b)
      [] t = "psql" /\ f = "echo_queries" -> PsqlBuilder_echo_queries(b)
      [] t = "psql" /\ f = "echo_hidden" -> PsqlBuilder_echo_hidden(b)
      [] t = "psql" /\ f = "log_file" -> PsqlBuilder_log_file(b, v)
      [] t = "psql" /\ f = "no_readline" -> PsqlBuilder_no_readline(b)
      [] t = "psql" /\ f = "output" -> PsqlBuilder_output(b, v)
      [] t = "psql" /\ f = "quiet" -> PsqlBuilder_quiet(b)
      [] t = "psql" /\ f = "single_step" -> PsqlBuilder_single_step(b)
      [] t = "psql" /\ f = "single_line" -> PsqlBuilder_single_line(b)
      [] t = "psql" /\ f = "no_align" -> PsqlBuilder_no_align(b)
      [] t = "psql" /\ f = "csv" -> PsqlBuilder_csv(b)
      [] t = "psql" /\ f = "field_separator" -> PsqlBuilder_field_separator(b, v)
      [] t = "psql" /\ f = "html" -> PsqlBuilder_html(b)
      [] t = "psql" /\ f = "pset" -> PsqlBuilder_pset(b, v)
      [] t = "psql" /\ f = "record_separator" -> PsqlBuilder_record_separator(b, v)
      [] t = "psql" /\ f = "tuples_only" -> PsqlBuilder_tuples_only(b)
      [] t = "psql" /\ f = "table_attr" -> PsqlBuilder_table_attr(b, v)
      [] t = "psql" /\ f = "expanded" -> PsqlBuilder_expanded(b)
      [] t = "psql" /\ f = "field_separator_zero" -> PsqlBuilder_field_separator_zero(b)
      [] t = "psql" /\ f = "record_separator_zero" -> PsqlBuilder_record_separator_zero(b)
      [] t = "psql" /\ f = "host" -> PsqlBuilder_host(b, v)
      [] t = "psql" /\ f = "port" -> PsqlBuilder_port(b, v)
      [] t = "psql" /\ f = "username" -> PsqlBuilder_username(b, v)
      [] t = "psql" /\ f = "no_password" -> PsqlBuilder_no_password(b)
      [] t = "psql" /\ f = "password" -> PsqlBuilder_password(b)


----------------------------------------------------------------------------
(* Executor: std::process::Command and tokio::process::Command              *)

\* Bytes a child can write: one valid ASCII byte and one byte that is not
\* valid UTF-8.
Bytes == {"a", "0xFF"}

\* Exit statuses of a child: 0 is success, 1 a failure code, -1 stands for
\* termination by a signal (no exit code).
ExitStatuses == {0, 1, -1}

\* ExitStatus::success
success(status) == status = 0

\* String::from_utf8_lossy(..).into_owned(): valid bytes are kept, each
\* invalid byte becomes U+FFFD.
RECURSIVE from_utf8_lossy(_)
from_utf8_lossy(bytes) ==
    IF bytes = <<>> THEN <<>>
    ELSE <<IF Head(bytes) = "0xFF" THEN "U+FFFD" ELSE Head(bytes)>>
         \o from_utf8_lossy(Tail(bytes))

\* The child process before spawn.
NoProcess ==
    [state |-> "none", status |-> 0, stdout |-> <<>>, stderr |-> <<>>,
     spawnedAt |-> 0, exitedAt |-> 0]

\* Command::spawn at time `now` with both streams piped: a running child that
\* has written nothing yet.
Spawned(now) == [NoProcess EXCEPT !.state = "running", !.spawnedAt = now]

\* Output with the stderr pipe left out of the capture.
OutputStdoutOnly(p) == [status |-> p.status, stdout |-> p.stdout, stderr |-> <<>>]

\* std::process::Output of an exited child.
Output(p) == [status |-> p.status, stdout |-> p.stdout, stderr |-> p.stderr]

\* The `?` conversion of tokio::time::error::Elapsed into the crate's error.
FromElapsed == [kind |-> "TimeoutError", source |-> "Elapsed"]

\* The `?` conversion of std::io::Error into the crate's error.
FromIoError == [kind |-> "SpawnError", source |-> "io::Error"]

\* Ok((stdout, stderr))
Ok(stdout, stderr) == [kind |-> "Ok", stdout |-> stdout, stderr |-> stderr]

\* Err(EmbeddedError::CommandError { stdout, stderr })
CommandError(stdout, stderr) ==
    [kind |-> "CommandError", stdout |-> stdout, stderr |-> stderr]

\* A timeout whose elapsed delay is taken for the completion of the future.
TimeoutValueOnElapsed(valueReady, delayReady) ==
    IF valueReady \/ delayReady THEN "Value" ELSE "Pending"

\* A timeout that looks at the delay before it polls the future.
TimeoutDelayFirst(valueReady, delayReady) ==
    IF delayReady THEN "Elapsed"
    ELSE IF valueReady THEN "Value"
    ELSE "Pending"

\* A timeout whose delay never fires.
TimeoutNeverElapses(valueReady, delayReady) ==
    IF valueReady THEN "Value" ELSE "Pending"

\* tokio::time::timeout polled: the wrapped future is polled first, and the
\* delay only if the future is pending.
Timeout(valueReady, delayReady) ==
    IF valueReady THEN "Value"
    ELSE IF delayReady THEN "Elapsed"
    ELSE "Pending"

\* A tokio finish that leaves stderr out of the error.
TokioFinishDropsStderr(output) ==
    IF success(output.status)
    THEN [kind |-> "Ok", stdout |-> from_utf8_lossy(output.stdout),
          stderr |-> from_utf8_lossy(output.stderr)]
    ELSE [kind |-> "CommandError", stdout |-> from_utf8_lossy(output.stdout),
          stderr |-> <<>>]

\* tokio execute, after the output is there: decode both streams, classify
\* by the exit status.
TokioFinish(output) ==
    LET stdout == from_utf8_lossy(output.stdout)
        stderr == from_utf8_lossy(output.stderr)
    IN  IF success(output.status)
        THEN Ok(stdout, stderr)
        ELSE CommandError(stdout, stderr)

\* A std finish that classifies by the exit status, as the tokio one does.
StdFinishChecksStatus(output) ==
    [kind |-> IF success(output.status) THEN "Ok" ELSE "CommandError",
     stdout |-> from_utf8_lossy(output.stdout),
     stderr |-> from_utf8_lossy(output.stderr)]

\* std execute, after the output is there: decode both streams, no look at
\* the exit status.
StdFinish(output) ==
    LET stdout == from_utf8_lossy(output.stdout)
        stderr == from_utf8_lossy(output.stderr)
    IN  Ok(stdout, stderr)

\* Dropping the future of Command::output() before it resolved drops the
\* Child: the child is killed only if the command has kill_on_drop set.
DropChild(p, kill_on_drop) ==
    IF kill_on_drop /\ p.state = "running"
    THEN [p EXCEPT !.state = "killed", !.status = -1]
    ELSE p

\* Whether the delay of the Timeout is ready at time `now`.
DelayReady(now, dl) == IsSome(dl) /\ now >= Unwrap(dl)

\* A match on the timeout argument that does not wait for the output future
\* when no timeout is given.
AwaitReadyWithoutTimeout(tmo, valueReady, delayReady) ==
    IF IsSome(tmo) THEN Timeout(valueReady, delayReady)
    ELSE "Value"

\* The match on the timeout argument, polled: with Some(duration) the output
\* future is polled through tokio::time::timeout, with None directly.
Await(tmo, valueReady, delayReady) ==
    IF IsSome(tmo) THEN Timeout(valueReady, delayReady)
    ELSE IF valueReady THEN "Value"
    ELSE "Pending"

\* First poll of tokio's execute: pipes are set, output() tries to spawn the
\* child, the timeout (if any) is armed and the output future polled once.
\* A failed spawn makes the output future ready with Err(io::Error).
TokioExecute ==
    /\ exec = "tokio"
    /\ pc = "NotStarted"
    /\ LET dl == IF IsSome(timeout) THEN Some(clock + Unwrap(timeout))
                 ELSE None
           polled == Await(timeout, ~spawnable, DelayReady(clock, dl))
           child == IF spawnable THEN Spawned(clock) ELSE NoProcess
       IN  /\ deadline' = dl
           /\ CASE polled = "Value" ->
                     /\ proc' = child
                     /\ pc' = "Returned"
                     /\ result' = Some(IF spawnable
                                       THEN TokioFinish(Output(child))
                                       ELSE FromIoError)
                [] polled = "Elapsed" ->
                     /\ proc' = DropChild(child, Unwrap(tokioCmd).kill_on_drop)
                     /\ pc' = "Returned"
                     /\ result' = Some(FromElapsed)
                [] OTHER ->
                     /\ proc' = child
                     /\ pc' = "Awaiting"
                     /\ UNCHANGED result
    /\ UNCHANGED <<exec, spawnable, timeout, clock>>
    /\ UNCHANGED builderVars

\* A later poll of tokio's execute, when the task was woken by the child's
\* exit or by the timer.
TokioPoll ==
    /\ exec = "tokio"
    /\ pc = "Awaiting"
    /\ LET polled == Await(timeout, proc.state = "exited",
                           DelayReady(clock, deadline))
       IN  /\ polled # "Pending"
           /\ pc' = "Returned"
           /\ IF polled = "Value"
              THEN /\ result' = Some(TokioFinish(Output(proc)))
                   /\ UNCHANGED proc
              ELSE /\ result' = Some(FromElapsed)
                   /\ proc' = DropChild(proc, Unwrap(tokioCmd).kill_on_drop)
    /\ UNCHANGED <<exec, spawnable, timeout, clock, deadline>>
    /\ UNCHANGED builderVars

\* std's execute up to the blocking Command::output(): pipes are set and the
\* child is spawned; the timeout argument is not read.
StdExecute ==
    /\ exec = "std"
    /\ pc = "NotStarted"
    /\ IF ~spawnable
       THEN /\ pc' = "Returned"
            /\ result' = Some(FromIoError)
            /\ UNCHANGED proc
       ELSE /\ proc' = Spawned(clock)
            /\ pc' = "Blocked"
            /\ UNCHANGED result
    /\ UNCHANGED <<exec, spawnable, timeout, clock, deadline>>
    /\ UNCHANGED builderVars

\* A std wait that gives up once the timeout has elapsed.
StdReturnTimesOut ==
    /\ exec = "std"
    /\ pc = "Blocked"
    /\ LET late == IsSome(timeout) /\ clock >= proc.spawnedAt + Unwrap(timeout)
       IN  /\ proc.state = "exited" \/ late
           /\ pc' = "Returned"
           /\ result' = Some(IF proc.state = "exited"
                             THEN [kind |-> "Ok",
                                   stdout |-> from_utf8_lossy(proc.stdout),
                                   stderr |-> from_utf8_lossy(proc.stderr)]
                             ELSE [kind |-> "TimeoutError", source |-> "Elapsed"])
    /\ UNCHANGED <<exec, spawnable, timeout, clock, deadline, proc>>
    /\ UNCHANGED builderVars

\* std's Command::output() returns once the child has exited.
StdReturn ==
    /\ exec = "std"
    /\ pc = "Blocked"
    /\ proc.state = "exited"
    /\ pc' = "Returned"
    /\ result' = Some(StdFinish(Output(proc)))
    /\ UNCHANGED <<exec, spawnable, timeout, clock, deadline, proc>>
    /\ UNCHANGED builderVars

\* Time passes.  The clock is followed up to MaxClock, and beyond it up to
\* the deadline of a timeout that is armed.
Tick ==
    /\ \/ clock < MaxClock
       \/ IsSome(deadline) /\ clock < Unwrap(deadline)
    /\ clock' = clock + 1
    /\ UNCHANGED <<exec, spawnable, timeout, deadline, pc, proc, result>>
    /\ UNCHANGED builderVars

\* The child writes one byte to its stdout pipe, while execute still holds
\* the read end.
ProcWriteStdout ==
    /\ proc.state = "running"
    /\ pc \in {"Awaiting", "Blocked"}
    /\ Len(proc.stdout) < MaxOut
    /\ \E b \in Bytes : proc' = [proc EXCEPT !.stdout = Append(@, b)]
    /\ UNCHANGED <<exec, spawnable, timeout, clock, deadline, pc, result>>
    /\ UNCHANGED builderVars

\* The child writes one byte to its stderr pipe.
ProcWriteStderr ==
    /\ proc.state = "running"
    /\ pc \in {"Awaiting", "Blocked"}
    /\ Len(proc.stderr) < MaxOut
    /\ \E b \in Bytes : proc' = [proc EXCEPT !.stderr = Append(@, b)]
    /\ UNCHANGED <<exec, spawnable, timeout, clock, deadline, pc, result>>
    /\ UNCHANGED builderVars

\* The child exits (also after execute gave up waiting for it).
ProcExit ==
    /\ proc.state = "running"
    /\ \E st \in ExitStatuses :
          proc' = [proc EXCEPT !.state = "exited", !.status = st,
                               !.exitedAt = clock]
    /\ UNCHANGED <<exec, spawnable, timeout, clock, deadline, pc, result>>
    /\ UNCHANGED builderVars

ExecInit ==
    /\ exec \in {"std", "tokio"}
    /\ spawnable \in BOOLEAN
    /\ timeout \in {None} \cup {Some(d) : d \in 0..MaxTimeout}
    /\ clock = 0
    /\ deadline = None
    /\ pc = "NotStarted"
    /\ proc = NoProcess
    /\ result = None

ExecNext ==
    \/ TokioExecute
    \/ TokioPoll
    \/ StdExecute
    \/ StdReturn
    \/ Tick
    \/ ProcWriteStdout
    \/ ProcWriteStderr
    \/ ProcExit

----------------------------------------------------------------------------
(* Specifications *)

\* Builders: a new builder of one of the tools, configured and built.  No
\* command is executed.
BuilderInit ==
    /\ tool \in Tools
    /\ builder = New(tool)
    /\ stdCmd = None
    /\ tokioCmd = None
    /\ exec = "std"
    /\ spawnable = TRUE
    /\ timeout = None
    /\ clock = 0
    /\ deadline = None
    /\ pc = "NotStarted"
    /\ proc = NoProcess
    /\ result = None

SpecBuilder == BuilderInit /\ [][BuilderNext]_vars

\* Executors: execute is called once on the command that build / build_tokio
\* made of a new psql builder.
Init ==
    /\ tool = "psql"
    /\ builder = New("psql")
    /\ stdCmd = Some(build("psql", builder))
    /\ tokioCmd = Some(build_tokio("psql", builder))
    /\ ExecInit

Next == ExecNext

Spec == Init /\ [][Next]_vars

\* Executors under a fair clock and a fair scheduler: time goes on, a call
\* that can be made is made, and a task that was woken or a blocked thread
\* whose child has exited goes on.  Nothing makes the child exit.
Fairness ==
    /\ WF_vars(Tick)
    /\ WF_vars(TokioExecute)
    /\ WF_vars(TokioPoll)
    /\ WF_vars(StdExecute)
    /\ WF_vars(StdReturn)

SpecFair == Init /\ [][Next]_vars /\ Fairness

\* Paired flags: the names and values given to psql's variable and pset are
\* any text of up to MaxLen characters out of a letter, the separator and a
\* byte that is not valid Unicode.
PairChars == {"a", "=", "0xFF"}

PairStrings == UNION {[1..n -> PairChars] : n \in 0..MaxLen}

\* variable((name, value)) on a psql builder whose other paired flag is unset.
Pair_PsqlBuilder_variable ==
    /\ tool = "psql"
    /\ ~IsSome(builder.pset)
    /\ \E name, value \in PairStrings :
          builder' = PsqlBuilder_variable(builder, <<name, value>>)
    /\ UNCHANGED <<tool, stdCmd, tokioCmd>>
    /\ UNCHANGED execVars

\* pset((var, arg)) on a psql builder whose other paired flag is unset.
Pair_PsqlBuilder_pset ==
    /\ tool = "psql"
    /\ ~IsSome(builder.variable)
    /\ \E var, arg \in PairStrings :
          builder' = PsqlBuilder_pset(builder, <<var, arg>>)
    /\ UNCHANGED <<tool, stdCmd, tokioCmd>>
    /\ UNCHANGED execVars

PairInit ==
    /\ BuilderInit
    /\ tool = "psql"

PairNext ==
    \/ Pair_PsqlBuilder_variable
    \/ Pair_PsqlBuilder_pset

SpecPair == PairInit /\ [][PairNext]_vars

----------------------------------------------------------------------------
(* Claims about the executors, checked under Spec *)

\* The value execute returned.
Returned == Unwrap(result)

\* The timeout given to execute has elapsed since the child was spawned.
TimeoutElapsed ==
    IsSome(timeout) /\ clock >= proc.spawnedAt + Unwrap(timeout)

\* The timeout elapsed while the child was still running: the child runs on
\* past it, or exited only at a later time.
ElapsedWhileRunning ==
    /\ TimeoutElapsed
    /\ \/ proc.state = "running"
       \/ /\ proc.state = "exited"
          /\ proc.exitedAt > proc.spawnedAt + Unwrap(timeout)

\* The child exited before any timeout.
ExitedBeforeTimeout ==
    /\ proc.state = "exited"
    /\ IsSome(timeout) => proc.exitedAt < proc.spawnedAt + Unwrap(timeout)

\* C1 as stated: whenever the timeout of a tokio execute(Some(d)) elapsed
\* while the child was still running, the call ends in the timeout failure.
C1_TimeoutWheneverElapsedWhileRunning ==
    (exec = "tokio" /\ pc = "Returned" /\ ElapsedWhileRunning)
        => Returned.kind = "TimeoutError"

\* C1 amended: a tokio execute(Some(d)) that returns while its child is still
\* running (it was polled after d elapsed and found the child running)
\* returns the timeout failure, never Ok and never CommandError, and only
\* once d has elapsed; the timeout failure is a kind of its own.
C1_TimeoutWhenPolledWhileRunning ==
    [][(/\ exec = "tokio"
        /\ IsSome(timeout)
        /\ spawnable
        /\ proc.state # "exited"
        /\ pc # "Returned"
        /\ pc' = "Returned")
       => /\ result' = Some(FromElapsed)
          /\ Unwrap(result').kind = "TimeoutError"
          /\ Unwrap(result').kind \notin
                {"Ok", CommandError(<<>>, <<>>).kind, FromIoError.kind}
          /\ clock >= proc'.spawnedAt + Unwrap(timeout)]_vars

\* C1 witness: a call with a timeout of at least one tick returned the
\* timeout failure while the child runs on.
C1_Witness ==
    /\ exec = "tokio"
    /\ pc = "Returned"
    /\ IsSome(timeout)
    /\ Unwrap(timeout) > 0
    /\ proc.state = "running"
    /\ TimeoutElapsed
    /\ Returned.kind = "TimeoutError"

\* C2 as stated: whenever a tokio execute has returned the timeout failure,
\* the child it spawned is no longer running.
C2_ChildNotRunningAfterTimeout ==
    (exec = "tokio" /\ pc = "Returned" /\ Returned = FromElapsed)
        => proc.state # "running"

\* C3: a tokio execute whose child exited before any timeout returns Ok iff
\* the exit status is success, CommandError otherwise, and both carry the
\* decoded stdout and stderr of the child in full.
C3_ExitStatusClassified ==
    (exec = "tokio" /\ pc = "Returned" /\ ExitedBeforeTimeout)
        => /\ Returned.kind \in {"Ok", "CommandError"}
           /\ Returned.kind = "Ok" <=> proc.status = 0
           /\ Returned.stdout = from_utf8_lossy(proc.stdout)
           /\ Returned.stderr = from_utf8_lossy(proc.stderr)

\* C3 witness: CommandError returned for a child that wrote to both streams
\* and exited with a failure status before the timeout.
C3_Witness ==
    /\ exec = "tokio"
    /\ pc = "Returned"
    /\ IsSome(timeout)
    /\ ExitedBeforeTimeout
    /\ proc.status = 1
    /\ proc.stdout # <<>>
    /\ proc.stderr # <<>>
    /\ Returned.kind = "CommandError"

\* C4: a std execute whose child was spawned and exited returns Ok with the
\* decoded output whatever the exit status, and std never returns
\* CommandError; the tokio execute returns CommandError for the same outcome
\* with a non-zero status.
C4_StdOkForEveryStatus ==
    /\ (exec = "std" /\ pc = "Returned" /\ proc.state = "exited")
          => /\ Returned.kind = "Ok"
             /\ Returned.stdout = from_utf8_lossy(proc.stdout)
             /\ Returned.stderr = from_utf8_lossy(proc.stderr)
    /\ (exec = "std" /\ pc = "Returned") => Returned.kind # "CommandError"
    /\ (exec = "tokio" /\ pc = "Returned" /\ ExitedBeforeTimeout
            /\ proc.status # 0)
          => Returned.kind = "CommandError"

\* C4 witness: std returned Ok for a child that exited with a failure status
\* after writing output.
C4_Witness ==
    /\ exec = "std"
    /\ pc = "Returned"
    /\ proc.state = "exited"
    /\ proc.status = 1
    /\ proc.stdout # <<>>
    /\ Returned.kind = "Ok"

\* C5: when the program cannot be spawned, execute of either executor, with
\* any timeout argument, never waits: the call is enabled, its one step
\* returns the I/O error (not Ok, not CommandError, not the timeout failure),
\* and there is no child and no captured output.
C5_SpawnFailureReturned ==
    ~spawnable
        => /\ pc \in {"NotStarted", "Returned"}
           /\ pc = "NotStarted" => ENABLED (TokioExecute \/ StdExecute)
           /\ proc = NoProcess
           /\ pc = "Returned"
                 => /\ Returned.source = "io::Error"
                    /\ Returned.kind = FromIoError.kind
                    /\ Returned.kind \notin {"Ok", "CommandError", FromElapsed.kind}
                    /\ DOMAIN Returned \cap {"stdout", "stderr"} = {}

\* C5 witness: a tokio execute with a timeout that has already elapsed
\* returned the spawn failure.
C5_Witness ==
    /\ ~spawnable
    /\ exec = "tokio"
    /\ timeout = Some(0)
    /\ pc = "Returned"
    /\ Returned.source = "io::Error"

\* C6 as stated: a std execute(Some(d)) whose timeout elapsed while the child
\* was still running ends in the timeout failure.
C6_StdHonoursTimeout ==
    (exec = "std" /\ pc = "Returned" /\ ElapsedWhileRunning)
        => Returned.kind = "TimeoutError"

\* C6 amended: std's execute does not read its timeout: while the child runs
\* the call stays blocked, also after the timeout has elapsed; it returns
\* only once the child has exited, then with Ok, and never with the timeout
\* failure.
C6_StdIgnoresTimeout ==
    exec = "std"
        => /\ proc.state = "running" => pc = "Blocked"
           /\ (pc = "Returned" /\ spawnable)
                 => /\ proc.state = "exited"
                    /\ Returned.kind = "Ok"
           /\ pc = "Returned" => Returned.kind # "TimeoutError"

\* C6 witness: std returned Ok for a child that exited after the timeout had
\* elapsed.
C6_Witness ==
    /\ exec = "std"
    /\ pc = "Returned"
    /\ IsSome(timeout)
    /\ proc.state = "exited"
    /\ proc.exitedAt > proc.spawnedAt + Unwrap(timeout)
    /\ Returned.kind = "Ok"

\* The stdout and stderr text a returned value carries (none: empty text).
Carried(r) ==
    IF {"stdout", "stderr"} \subseteq DOMAIN r
    THEN <<r.stdout, r.stderr>>
    ELSE <<<<>>, <<>>>>

\* C7 as stated: every value a tokio execute returns carries the stdout and
\* stderr the child had written by then.
C7_EveryResultCarriesOutput ==
    (exec = "tokio" /\ pc = "Returned")
        => Carried(Returned) =
              <<from_utf8_lossy(proc.stdout), from_utf8_lossy(proc.stderr)>>

\* C7 amended: of the values a tokio execute returns, Ok and CommandError
\* carry the whole decoded stdout and stderr of the exited child; the timeout
\* failure and the spawn failure carry the cause only and no output text.
C7_OnlyCompletedCarriesOutput ==
    (exec = "tokio" /\ pc = "Returned")
        => /\ Returned.kind \in {"Ok", "CommandError"}
                 => /\ proc.state = "exited"
                    /\ Returned.stdout = from_utf8_lossy(proc.stdout)
                    /\ Returned.stderr = from_utf8_lossy(proc.stderr)
           /\ Returned.kind \notin {"Ok", "CommandError"}
                 => /\ Returned.source \in {"Elapsed", "io::Error"}
                    /\ DOMAIN Returned \cap {"stdout", "stderr"} = {}
           /\ (spawnable /\ proc.state # "exited")
                 => Returned.source = "Elapsed"

\* C7 witness: the timeout failure was returned after the child had written
\* to stdout and to stderr.
C7_Witness ==
    /\ exec = "tokio"
    /\ pc = "Returned"
    /\ Returned.kind = "TimeoutError"
    /\ proc.stdout # <<>>
    /\ proc.stderr # <<>>

----------------------------------------------------------------------------
(* Claims about the builders, checked under SpecBuilder *)

\* The flag fields of the builder that hold a value.
SetFlags == SetFields(tool, builder) \ {"program_dir"}

\* The builder with every field but f unset.
Only(t, b, f) == [New(t) EXCEPT ![f] = b[f]]

\* The tokens of the flag fields fs (a sequence) one after the other: those
\* of a set field are what get_args gives for it alone, an unset field has
\* none.
RECURSIVE Blocks(_, _, _)
Blocks(t, b, fs) ==
    IF fs = <<>> THEN <<>>
    ELSE (IF IsSet(t, b, Head(fs))
          THEN get_args(t, Only(t, b, Head(fs)))
          ELSE <<>>)
         \o Blocks(t, b, Tail(fs))

\* The orders in which the fields of the set S can be listed.
Orderings(S) ==
    {o \in [1..Cardinality(S) -> S] : \A i, j \in DOMAIN o : i # j => o[i] # o[j]}

\* The builder made by calling, on acc, the setters of the fields of `order`
\* in that order, each with the value the field has in b.
RECURSIVE Replay(_, _, _, _)
Replay(t, order, b, acc) ==
    IF order = <<>> THEN acc
    ELSE LET f == Head(order)
             v == IF f \in PresenceFlags(t) THEN TRUE ELSE Unwrap(b[f])
         IN  Replay(t, Tail(order), b, CallSetter(t, f, v, acc))

\* The position of field f in the declaration order of the struct.
DeclIndex(t, f) == CHOOSE i \in 1..Len(Fields(t)) : Fields(t)[i] = f

\* A path as its components: whether it starts at the root, and the names
\* between the separators.
RECURSIVE Names(_, _)
Names(path, cur) ==
    IF path = <<>> THEN (IF cur = <<>> THEN <<>> ELSE <<cur>>)
    ELSE IF Head(path) = "/"
         THEN (IF cur = <<>> THEN <<>> ELSE <<cur>>) \o Names(Tail(path), <<>>)
         ELSE Names(Tail(path), Append(cur, Head(path)))

Components(path) ==
    [root |-> path # <<>> /\ path[1] = "/", names |-> Names(path, <<>>)]

\* C8: build() and build_tokio() of the same builder carry the same program
\* path and the same arguments, and each is the path and the token sequence
\* that get_program_file and get_args give for the builder as it is, however
\* often and in whichever order the two are built.
C8_BuildsAgree ==
    /\ IsSome(stdCmd)
          => /\ Unwrap(stdCmd).program = get_program_file(tool, builder)
             /\ Unwrap(stdCmd).args = get_args(tool, builder)
    /\ IsSome(tokioCmd)
          => /\ Unwrap(tokioCmd).std.program = get_program_file(tool, builder)
             /\ Unwrap(tokioCmd).std.args = get_args(tool, builder)
    /\ (IsSome(stdCmd) /\ IsSome(tokioCmd))
          => Unwrap(tokioCmd).std = Unwrap(stdCmd)

\* C8 witness: both commands were built from a builder with a program
\* directory and at least one flag.
C8_Witness ==
    /\ IsSome(stdCmd)
    /\ IsSome(tokioCmd)
    /\ IsSome(builder.program_dir)
    /\ SetFlags # {}
    /\ Unwrap(tokioCmd).std.args # <<>>

\* C9: get_args is the blocks of the set flag fields in the declaration order
\* of the struct and nothing else, so an unset field gives no token and a new
\* builder none at all; and calling the setters of the set fields in any
\* order, with the same values, gives the same tokens.
C9_DeclarationOrder ==
    /\ get_args(tool, builder) = Blocks(tool, builder, FlagFields(tool))
    /\ get_args(tool, New(tool)) = <<>>
    /\ \A o \in Orderings(SetFields(tool, builder)) :
          get_args(tool, Replay(tool, o, builder, New(tool)))
              = get_args(tool, builder)

\* C9 witness: a pg_isready builder with two flags set, which is also what
\* calling the two setters against the declaration order gives.
C9_Witness ==
    /\ tool = "pg_isready"
    /\ Cardinality(SetFlags) = 2
    /\ Len(get_args(tool, builder)) >= 3
    /\ \E o \in Orderings(SetFlags) :
          /\ DeclIndex(tool, o[1]) > DeclIndex(tool, o[2])
          /\ Replay(tool, o, builder, New(tool)) = builder

\* The fields whose value a step changes.
Changed ==
    LET fs == Fields(tool)
    IN  {fs[i] : i \in {j \in 1..Len(fs) : builder'[fs[j]] # builder[fs[j]]}}

\* The resolved path is the directory's components followed by the program
\* name as one more component, or the bare program name without directory;
\* the built command carries it as its program, apart from the arguments.
ResolvedPath ==
    LET file == get_program_file(tool, builder)
        dir == builder.program_dir
    IN  /\ IsSome(dir)
              => /\ Components(file).root = Components(Unwrap(dir)).root
                 /\ Components(file).names
                        = Components(Unwrap(dir)).names \o <<get_program(tool)>>
        /\ ~IsSome(dir) => file = get_program(tool)
        /\ build(tool, builder).program = file
        /\ build(tool, builder).args = get_args(tool, builder)

\* C10: in every state the resolved path is as ResolvedPath says; a step
\* that changes program_dir leaves the argument list as it was, and a step
\* that changes a flag field leaves the resolved path as it was.
C10_ProgramFile ==
    /\ []ResolvedPath
    /\ [][/\ "program_dir" \in Changed
                => get_args(tool, builder') = get_args(tool, builder)
          /\ Changed \ {"program_dir"} # {}
                => get_program_file(tool, builder')
                      = get_program_file(tool, builder)]_vars

\* C10 witness: a builder with a flag set and a program directory that does
\* not end with a separator.
C10_Witness ==
    /\ IsSome(builder.program_dir)
    /\ Unwrap(builder.program_dir) = <<"/", "usr", "/", "bin">>
    /\ SetFlags # {}
    /\ get_program_file(tool, builder)
          = <<"/", "usr", "/", "bin", "/">> \o get_program(tool)

----------------------------------------------------------------------------
(* Claims about the paired flags, checked under SpecPair *)

\* The pair the builder holds, if one of the two paired flags is set.
PairSet == IsSome(builder.variable) \/ IsSome(builder.pset)

ThePair ==
    IF IsSome(builder.variable) THEN Unwrap(builder.variable)
    ELSE Unwrap(builder.pset)

ThePairFlag ==
    IF IsSome(builder.variable) THEN <<"--variable">> ELSE <<"--pset">>

\* How many "=" a text holds.
RECURSIVE CountEq(_)
CountEq(text) ==
    IF text = <<>> THEN 0
    ELSE (IF Head(text) = "=" THEN 1 ELSE 0) + CountEq(Tail(text))

\* A text split at its first "=": what is before it and what is after it.
RECURSIVE BeforeEq(_)
BeforeEq(text) ==
    IF text = <<>> \/ Head(text) = "=" THEN <<>>
    ELSE <<Head(text)>> \o BeforeEq(Tail(text))

AfterEq(text) == SubSeq(text, Len(BeforeEq(text)) + 2, Len(text))

\* Whether a text is valid Unicode and free of "=".
ValidUnicode(text) == \A i \in 1..Len(text) : text[i] # "0xFF"
NoEq(text) == CountEq(text) = 0

\* C11 as stated: for every name K and value V of a paired flag, get_args
\* emits the flag name and then one token that is exactly K, "=" and V, holds
\* exactly one "=" and splits at it into K and V.
C11_PairTokenSplitsBack ==
    PairSet
        => LET args == get_args(tool, builder)
               K == ThePair[1]
               V == ThePair[2]
           IN  /\ Len(args) = 2
               /\ args[1] = ThePairFlag
               /\ args[2] = K \o <<"=">> \o V
               /\ CountEq(args[2]) = 1
               /\ BeforeEq(args[2]) = K
               /\ AfterEq(args[2]) = V

\* C11 amended: get_args emits the flag name and then one token made of the
\* lossy text of K, one "=" and the lossy text of V, which is exactly K=V
\* when K and V are valid Unicode; the token holds one "=" more than K and V
\* together, so exactly one, splitting back into K and V, just when K and V
\* are valid Unicode without "=".
C11_PairTokenJoined ==
    PairSet
        => LET args == get_args(tool, builder)
               K == ThePair[1]
               V == ThePair[2]
           IN  /\ Len(args) = 2
               /\ args[1] = ThePairFlag
               /\ args[2] = to_string_lossy(K) \o <<"=">> \o to_string_lossy(V)
               /\ (ValidUnicode(K) /\ ValidUnicode(V))
                     => args[2] = K \o <<"=">> \o V
               /\ CountEq(args[2]) = CountEq(K) + CountEq(V) + 1
               /\ (ValidUnicode(K) /\ ValidUnicode(V) /\ NoEq(K) /\ NoEq(V))
                     => /\ CountEq(args[2]) = 1
                        /\ BeforeEq(args[2]) = K
                        /\ AfterEq(args[2]) = V
               /\ ~NoEq(K) => BeforeEq(args[2]) # K

\* C11 witness: variable set to a name and a value that differ, both valid
\* Unicode without "=", and the token splits back into them.
C11_Witness ==
    /\ IsSome(builder.variable)
    /\ ThePair = <<<<"a", "a">>, <<"a">>>>
    /\ get_args(tool, builder) = <<<<"--variable">>, <<"a", "a", "=", "a">>>>

----------------------------------------------------------------------------
(* Claims about the shape of the token sequence, checked under SpecBuilder *)

\* The flag name that get_args pushes for a field.
FlagName(f) ==
    CASE f = "pgdata" -> <<"--pgdata">>
      [] f = "version" -> <<"--version">>
      [] f = "help" -> <<"--help">>
      [] f = "dbname" -> <<"--dbname">>
      [] f = "quiet" -> <<"--quiet">>
      [] f = "host" -> <<"--host">>
      [] f = "port" -> <<"--port">>
      [] f = "timeout" -> <<"--timeout">>
      [] f = "username" -> <<"--username">>
      [] f = "command" -> <<"--command">>
      [] f = "file" -> <<"--file">>
      [] f = "list" -> <<"--list">>
      [] f = "variable" -> <<"--variable">>
      [] f = "no_psqlrc" -> <<"--no-psqlrc">>
      [] f = "single_transaction" -> <<"--single-transaction">>
      [] f = "echo_all" -> <<"--echo-all">>
      [] f = "echo_errors" -> <<"--echo-errors">>
      [] f = "echo_queries" -> <<"--echo-queries">>
      [] f = "echo_hidden" -> <<"--echo-hidden">>
      [] f = "log_file" -> <<"--log-file">>
      [] f = "no_readline" -> <<"--no-readline">>
      [] f = "output" -> <<"--output">>
      [] f = "single_step" -> <<"--single-step">>
      [] f = "single_line" -> <<"--single-line">>
      [] f = "no_align" -> <<"--no-align">>
      [] f = "csv" -> <<"--csv">>
      [] f = "field_separator" -> <<"--field-separator">>
      [] f = "html" -> <<"--html">>
      [] f = "pset" -> <<"--pset">>
      [] f = "record_separator" -> <<"--record-separator">>
      [] f = "tuples_only" -> <<"--tuples-only">>
      [] f = "table_attr" -> <<"--table-attr">>
      [] f = "expanded" -> <<"--expanded">>
      [] f = "field_separator_zero" -> <<"--field-separator-zero">>
      [] f = "record_separator_zero" -> <<"--record-separator-zero">>
      [] f = "no_password" -> <<"--no-password">>
      [] f = "password" -> <<"--password">>

\* The Option<u16> fields and the Option<(OsString, OsString)> fields.
NumericFlags == {"port", "timeout"}
PairedFlags == {"variable", "pset"}

\* The number a text of decimal digits stands for, -1 if a character of it
\* is no digit.
RECURSIVE DecimalValue(_)
DecimalValue(text) ==
    LET last == text[Len(text)]
        d == IF \E n \in 0..9 : Digit(n) = last
             THEN CHOOSE n \in 0..9 : Digit(n) = last
             ELSE -1
        front == IF Len(text) = 1 THEN 0
                 ELSE DecimalValue(SubSeq(text, 1, Len(text) - 1))
    IN  IF d = -1 \/ front = -1 THEN -1 ELSE 10 * front + d

\* The token is the decimal form of n: its digits, without a leading zero.
IsDecimalOf(token, n) ==
    /\ token # <<>>
    /\ DecimalValue(token) = n
    /\ Len(token) > 1 => token[1] # "0"

\* The token is the value of field f as the rendering rules give it.
IsValueToken(token, f, v) ==
    IF f \in NumericFlags THEN IsDecimalOf(token, v)
    ELSE IF f \in PairedFlags
         THEN token = to_string_lossy(v[1]) \o <<"=">> \o to_string_lossy(v[2])
         ELSE token = v

\* The flag fields from the i-th on lay their blocks from position pos to
\* the end of args, one after the other: a set presence flag its name, a
\* set valued flag its name and then its value, an unset field nothing.
RECURSIVE BlocksFrom(_, _, _, _, _)
BlocksFrom(t, b, args, i, pos) ==
    IF i > Len(FlagFields(t)) THEN pos = Len(args) + 1
    ELSE LET f == FlagFields(t)[i]
         IN  IF ~IsSet(t, b, f) THEN BlocksFrom(t, b, args, i + 1, pos)
             ELSE IF f \in PresenceFlags(t)
             THEN /\ pos <= Len(args)
                  /\ args[pos] = FlagName(f)
                  /\ BlocksFrom(t, b, args, i + 1, pos + 1)
             ELSE /\ pos + 1 <= Len(args)
                  /\ args[pos] = FlagName(f)
                  /\ IsValueToken(args[pos + 1], f, Unwrap(b[f]))
                  /\ BlocksFrom(t, b, args, i + 1, pos + 2)

\* C12: the token sequence is one block per set field and nothing else: a
\* presence flag gives one token, its name; a valued flag gives two adjacent
\* tokens, its name immediately followed by its value (a u16 in decimal), so
\* no token of another flag stands between a name and its value; and the
\* length is the number of set presence flags plus twice the number of set
\* valued flags.
C12_OneBlockPerSetField ==
    LET args == get_args(tool, builder)
        presence == SetFlags \cap PresenceFlags(tool)
        valued == SetFlags \ PresenceFlags(tool)
    IN  /\ Len(args) = Cardinality(presence) + 2 * Cardinality(valued)
        /\ BlocksFrom(tool, builder, args, 1, 1)

\* C12 witness: pg_isready with a presence flag and a port: three tokens,
\* the port in decimal right after its name.
C12_Witness ==
    /\ tool = "pg_isready"
    /\ builder.quiet
    /\ builder.port = Some(5432)
    /\ get_args(tool, builder)
          = <<<<"--quiet">>, <<"--port">>, <<"5", "4", "3", "2">>>>

----------------------------------------------------------------------------
(* Claims about the states of the cooperative executor, checked under Spec *)

\* The state of the invocation, from the position of execute and its result.
ExecState(p, r) ==
    CASE p = "NotStarted" -> "NotStarted"
      [] p \in {"Awaiting", "Blocked"} -> "Running"
      [] p = "Returned" /\ Unwrap(r).kind = "Ok" -> "Completed(success)"
      [] p = "Returned" /\ Unwrap(r).kind = "CommandError" -> "Completed(failure)"
      [] p = "Returned" /\ Unwrap(r).kind = "TimeoutError" -> "TimedOut"
      [] p = "Returned" /\ Unwrap(r).kind = "SpawnError" -> "SpawnFailed"

TerminalStates ==
    {"Completed(success)", "Completed(failure)", "TimedOut", "SpawnFailed"}

\* The transitions of the state machine.
Transitions ==
    {<<"NotStarted", "Running">>, <<"NotStarted", "SpawnFailed">>,
     <<"Running", "Completed(success)">>, <<"Running", "Completed(failure)">>,
     <<"Running", "TimedOut">>}

\* The states a step goes through.  The first poll of execute spawns the
\* child and polls the await in one step: when it returns with a child
\* spawned, the invocation was Running in between.
StepPath ==
    IF pc = "NotStarted" /\ pc' = "Returned" /\ proc'.state # "none"
    THEN <<"NotStarted", "Running", ExecState(pc', result')>>
    ELSE <<ExecState(pc, result), ExecState(pc', result')>>

\* C13: an invocation of the cooperative executor moves only along
\* NotStarted -> Running -> {Completed(success), Completed(failure),
\* TimedOut} or NotStarted -> SpawnFailed; the child is spawned at most once,
\* by the step that leaves NotStarted; a terminal state has exactly one
\* result and is never left; TimedOut is entered only from Running and only
\* with a timeout given, and with None the call returns only after the child
\* has exited.
C13_StateMachine ==
    /\ [](exec = "tokio"
            => /\ pc = "Returned" <=> IsSome(result)
               /\ pc = "Returned"
                    => /\ ExecState(pc, result) \in TerminalStates
                       /\ ExecState(pc, result) = "TimedOut" => IsSome(timeout)
                       /\ ExecState(pc, result) = "SpawnFailed"
                              <=> proc.state = "none"
                       /\ ~IsSome(timeout) /\ proc.state # "none"
                              => /\ proc.state = "exited"
                                 /\ ExecState(pc, result)
                                       \in {"Completed(success)",
                                            "Completed(failure)"}
               /\ pc = "NotStarted" => proc.state = "none"
               /\ pc = "Awaiting" => proc.state # "none")
    /\ [][exec = "tokio"
            => /\ <<pc, result>> # <<pc', result'>>
                    => \A i \in 1..(Len(StepPath) - 1) :
                          <<StepPath[i], StepPath[i + 1]>> \in Transitions
               /\ pc = "Returned" => pc' = "Returned" /\ result' = result
               /\ proc.state = "none" /\ proc'.state # "none"
                    => pc = "NotStarted" /\ pc' # "NotStarted"
               /\ proc.state # "none"
                    => /\ proc'.state # "none"
                       /\ proc'.spawnedAt = proc.spawnedAt]_vars

\* C13 witness: without a timeout, execute waited until the child exited
\* with a failure status, later than it was spawned, and returned the
\* failure.
C13_Witness ==
    /\ exec = "tokio"
    /\ ~IsSome(timeout)
    /\ pc = "Returned"
    /\ ExecState(pc, result) = "Completed(failure)"
    /\ proc.state = "exited"
    /\ proc.exitedAt > proc.spawnedAt

----------------------------------------------------------------------------
(* Claims about termination, checked under SpecFair *)

\* The call is one that a timeout bounds: tokio's execute with Some(d).
Bounded == exec = "tokio" /\ IsSome(timeout)

\* C14: under a fair clock and scheduler, tokio's execute(Some(d)) returns
\* in the end, whether or not the child ever exits; tokio's execute(None)
\* and every call of std's execute have not returned while the child they
\* spawned has not exited (so they wait for ever if it never does), and
\* return once it has.
C14_BoundedCallsReturn ==
    /\ Bounded => <>(pc = "Returned")
    /\ [](~Bounded /\ proc.state = "running" => pc # "Returned")
    /\ (~Bounded /\ proc.state = "exited") ~> (pc = "Returned")

\* C14 witness: a tokio execute called after time had passed, with a timeout
\* above zero, returned the timeout failure at its deadline while the child
\* was still running.
C14_Witness ==
    /\ Bounded
    /\ Unwrap(timeout) > 0
    /\ pc = "Returned"
    /\ Returned.kind = "TimeoutError"
    /\ proc.state = "running"
    /\ proc.spawnedAt > 0
    /\ clock = Unwrap(deadline)

----------------------------------------------------------------------------
(* Claims about calling setters again, checked under SpecBuilder *)

\* The fields that hold a path.
PathFlags == {"pgdata", "file", "log_file", "output"}

\* The arguments a setter of field f is called with.
ArgsOf(t, f) ==
    IF f \in PresenceFlags(t) THEN {TRUE}
    ELSE IF f = "program_dir" THEN ProgramDirs
    ELSE IF f \in NumericFlags THEN U16s
    ELSE IF f \in PairedFlags THEN OsStrings \X OsStrings
    ELSE IF f \in PathFlags THEN PathBufs
    ELSE OsStrings

\* Whatever the builder holds, the setter of a field called with v leaves in
\* its field v and nothing else (TRUE for a presence flag), and every other
\* field as it was.
SetterReplaces ==
    LET fs == Fields(tool)
        presence == PresenceFlags(tool)
    IN  \A i \in 1..Len(fs) :
           \A v \in ArgsOf(tool, fs[i]) :
              LET b2 == CallSetter(tool, fs[i], v, builder)
              IN  /\ b2[fs[i]] = (IF fs[i] \in presence THEN TRUE
                                  ELSE Some(v))
                  /\ [b2 EXCEPT ![fs[i]] = builder[fs[i]]] = builder

\* The positions of args at which a flag name stands, reading args from the
\* left as the tool does: the name of a presence flag is followed by the
\* next flag name, any other name by its value.
RECURSIVE Heads(_, _, _)
Heads(t, args, pos) ==
    IF pos > Len(args) THEN {}
    ELSE {pos} \cup
         Heads(t, args,
               IF \E f \in PresenceFlags(t) : args[pos] = FlagName(f)
               THEN pos + 1 ELSE pos + 2)

\* Each field holds at most one value; a set flag field has its name at one
\* flag position of the tokens, followed by the value the field holds now
\* if it is a valued one, and at every flag position stands the name of a
\* set field.
EmittedOnce ==
    LET args == get_args(tool, builder)
        heads == Heads(tool, args, 1)
        set == SetFlags
    IN  /\ \A h \in heads : \E f \in set : args[h] = FlagName(f)
        /\ \A f \in set :
              LET at == {h \in heads : args[h] = FlagName(f)}
              IN  /\ Cardinality(at) = 1
                  /\ f \notin PresenceFlags(tool)
                       => /\ Len(builder[f]) = 1
                          /\ \A h \in at :
                                /\ h + 1 <= Len(args)
                                /\ IsValueToken(args[h + 1], f,
                                                Unwrap(builder[f]))

\* C15: after any sequence of setter calls each field holds at most one
\* value.  A setter called again replaces the value of its field, so that
\* the tokens carry only the last one; a presence flag that is set stays
\* set, and setting it again changes nothing; a setter leaves every field
\* but its own as it was, and no step unsets a field.  So every flag name
\* stands at no more than one flag position of the token sequence.
C15_LastValueOnly ==
    /\ [](SetterReplaces /\ EmittedOnce)
    /\ [][/\ Cardinality(Changed) <= 1
          /\ \A f \in SetFields(tool, builder) : IsSet(tool, builder', f)]_vars

\* C15 witness: a psql builder that holds a pair in variable and the
\* presence flag quiet, its tokens with each of the two names once, from
\* which variable can be set again to another pair.
C15_Witness ==
    /\ tool = "psql"
    /\ builder.quiet
    /\ builder.variable = Some(<<<<"postgres">>, <<"a", "=", "b">>>>)
    /\ get_args(tool, builder)
          = <<<<"--variable">>, <<"postgres", "=", "a", "=", "b">>,
              <<"--quiet">>>>
    /\ \E v \in OsStrings \X OsStrings :
          /\ PsqlBuilder_variable(builder, v).variable # builder.variable
          /\ Len(get_args(tool, PsqlBuilder_variable(builder, v))) = 3

============================================================================
